---- MODULE Spec2Model ----
(***************************************************************************)
(* Model of assets/js/diagnostico.js (cl_diagnostics): the page session    *)
(* (theme, information gathering with the two-stage network lookup, event  *)
(* listeners, modal, clipboard copy, download, transient messages) and the *)
(* pure helpers getBrowserInfo, parseMarkdown and escapeHtml.              *)
(*                                                                         *)
(* Strings that the code inspects character by character are sequences of  *)
(* one-character strings.  Time is counted in milliseconds and advances in *)
(* steps of TickMs.                                                        *)
(***************************************************************************)
EXTENDS Integers, Sequences, FiniteSets, TLC

VARIABLES
    pc,                \* position of init(): "ready", "themed", "gathering", "wired"
    dataTheme,         \* document.documentElement data-theme attribute
    storedTheme,       \* localStorage item 'theme'
    themeIcon,         \* .theme-icon textContent
    initialTheme,      \* value of the localStorage item when the page was loaded
    toggles,           \* number of toggleTheme calls so far
    netPc,             \* position of gatherSystemInfo / getNetworkInfo
    info,              \* the record getNetworkInfo is building
    primaryRequests,   \* fetches issued to get.geojs.io
    secondaryRequests, \* fetches issued to api.ipify.org
    primaryFailed,     \* the catch block of the primary request was entered
    systemData,        \* this.systemData
    networkHtml,       \* what displayInfo put into #network-info
    displayCount,      \* number of displayInfo calls
    writeCount,        \* number of assignments to this.systemData
    textareaValue,     \* #export-textarea value
    modalHidden,       \* #info-modal has class 'hidden'
    readmeLoaded,      \* this.readmeLoaded
    readmeFetches,     \* loadReadme calls suspended in fetch( 'README.md' )
    readmeReads,       \* loadReadme calls suspended in response.text()
    readmeContent,     \* #readme-content innerHTML
    copyPending,       \* copyToClipboard calls suspended in clipboard.writeText
    lastCopy,          \* what the last finished copyToClipboard call did
    downloaded,        \* a download was triggered by link.click()
    message,           \* #message element: text and className
    timers,            \* pending setTimeout callbacks: milliseconds left, oldest first
    uncaught,          \* an exception escaped an event handler
    ua,                \* navigator.userAgent
    browser,           \* result of getBrowserInfo (name and version)
    markdown,          \* argument of parseMarkdown
    html,              \* result of parseMarkdown
    text,              \* argument of escapeHtml
    escaped            \* result of escapeHtml

themeVars  == <<dataTheme, storedTheme, themeIcon, initialTheme, toggles>>
netVars    == <<netPc, info, primaryRequests, secondaryRequests, primaryFailed>>
dataVars   == <<systemData, networkHtml, displayCount, writeCount, textareaValue>>
modalVars  == <<modalHidden, readmeLoaded, readmeFetches, readmeReads, readmeContent>>
copyVars   == <<copyPending, lastCopy>>
msgVars    == <<message, timers>>
pureVars   == <<ua, browser, markdown, html, text, escaped>>
pageVars   == <<pc, themeVars, netVars, dataVars, modalVars, copyVars, msgVars,
                downloaded, uncaught>>
vars       == <<pageVars, pureVars>>

(***************************************************************************)
(* Bounds of the model.                                                    *)
(***************************************************************************)
MaxToggles        == 2
MaxPendingCopies  == 1
MaxReadmeFetches  == 2
MaxTimers         == 2
TickMs            == 5000
MaxTokens         == 3
MaxLines          == 3
MaxLen            == 3

None == "none"
Undefined == "undefined"
Unknown == "Unknown"

(***************************************************************************)
(* String helpers (JavaScript String methods on sequences of characters).  *)
(***************************************************************************)
Max(a, b) == IF a >= b THEN a ELSE b

\* s has the substring p at index i (1-based)
MatchAt(s, p, i) ==
    /\ i >= 1
    /\ i + Len(p) - 1 <= Len(s)
    /\ \A k \in 1..Len(p) : s[i + k - 1] = p[k]

\* String.prototype.indexOf from position i; 0 when absent
IndexFrom(s, p, i) ==
    LET hits == {k \in i..(Len(s) - Len(p) + 1) : MatchAt(s, p, k)}
    IN  IF hits = {} THEN 0 ELSE CHOOSE k \in hits : \A j \in hits : k <= j

\* String.prototype.lastIndexOf; 0 when absent
LastIndexOf(s, p) ==
    LET hits == {k \in 1..(Len(s) - Len(p) + 1) : MatchAt(s, p, k)}
    IN  IF hits = {} THEN 0 ELSE CHOOSE k \in hits : \A j \in hits : k >= j

\* String.prototype.includes
Includes(s, p) == IndexFrom(s, p, 1) # 0

\* String.prototype.startsWith
StartsWith(s, p) == MatchAt(s, p, 1)

\* the rest of s from index i
From(s, i) == SubSeq(s, i, Len(s))

RECURSIVE Concat(_)
Concat(ss) == IF ss = <<>> THEN <<>> ELSE Head(ss) \o Concat(Tail(ss))

\* String.prototype.split( sep ), sep not empty
RECURSIVE Split(_, _)
Split(s, sep) ==
    LET k == IndexFrom(s, sep, 1)
    IN  IF k = 0 THEN <<s>>
        ELSE <<SubSeq(s, 1, k - 1)>> \o Split(From(s, k + Len(sep)), sep)

\* Array.prototype.join( sep )
RECURSIVE Join(_, _)
Join(parts, sep) ==
    IF parts = <<>> THEN <<>>
    ELSE IF Len(parts) = 1 THEN parts[1]
    ELSE parts[1] \o sep \o Join(Tail(parts), sep)

NL == <<"\n">>

(***************************************************************************)
(* escapeHtml                                                              *)
(***************************************************************************)
Reserved == {"&", "<", ">", "\"", "'"}

\* the map object of escapeHtml
EscapeMap(m) ==
    CASE m = "&"  -> <<"&", "a", "m", "p", ";">>
      [] m = "<"  -> <<"&", "l", "t", ";">>
      [] m = ">"  -> <<"&", "g", "t", ";">>
      [] m = "\"" -> <<"&", "q", "u", "o", "t", ";">>
      [] m = "'"  -> <<"&", "#", "0", "3", "9", ";">>

\* the character class of the regular expression in escapeHtml
EscapeClassMissingQuote == {"&", "<", ">", "\""}

EscapeClass == {"&", "<", ">", "\"", "'"}

\* text.replace( /[&<>"']/g, ( m ) => map[m] )
RECURSIVE escapeHtml(_)
escapeHtml(t) ==
    IF t = <<>> THEN <<>>
    ELSE (IF Head(t) \in EscapeClass THEN EscapeMap(Head(t)) ELSE <<Head(t)>>)
         \o escapeHtml(Tail(t))

(***************************************************************************)
(* Theme Manager                                                           *)
(***************************************************************************)
StoredThemes == {None, "light", "dark", "other"}

\* updateThemeIcon: the glyph for a theme
ThemeIcon(theme) == IF theme = "dark" THEN "sun" ELSE "moon"

\* localStorage.getItem( 'theme' ) || 'light'
SavedTheme(stored) == IF stored = None THEN "light" ELSE stored

NewThemeStuck(currentTheme) == IF currentTheme = "light" THEN "light" ELSE "dark"

\* currentTheme === 'dark' ? 'light' : 'dark'
NewTheme(currentTheme) == IF currentTheme = "dark" THEN "light" ELSE "dark"

(***************************************************************************)
(* Network Lookup: data                                                    *)
(***************************************************************************)
GeoFields == {"ip", "city", "region", "country", "isp", "timezone"}
ConnFields == {"connection", "effectiveType", "downlink", "rtt"}
InfoFields == ConnFields \cup GeoFields

\* x || 'Unknown'
OrUnknown(x) == IF x \in {Undefined, ""} THEN Unknown ELSE x

\* navigator.connection: absent, or the Network Information API values
Connections ==
    { <<>>,
      <<[type |-> Undefined, effectiveType |-> "4g", downlink |-> "10", rtt |-> ""]>> }

\* bodies the primary service can answer with, once parsed: a full record,
\* an object without the fields, and the JSON value null
PrimaryBodies ==
    { <<[ip |-> "ip1", city |-> "Vigo", region |-> "Galicia", country |-> "Spain",
         organization_name |-> "Telco", timezone |-> "Europe/Madrid"]>>,
      <<[ip |-> Undefined, city |-> Undefined, region |-> Undefined,
         country |-> Undefined, organization_name |-> Undefined,
         timezone |-> Undefined]>>,
      <<>> }

\* bodies of the secondary service
SecondaryBodies == { <<[ip |-> "ip2"]>>, <<[ip |-> Undefined]>>, <<>> }

\* the info object as created at the top of getNetworkInfo
InfoDefaults ==
    [f \in InfoFields |-> IF f \in ConnFields THEN Unknown ELSE Undefined]

\* the if ( navigator.connection ) block
WithConnection(i, conn) ==
    IF conn = <<>> THEN i
    ELSE [i EXCEPT !["connection"]    = OrUnknown(conn[1].type),
                   !["effectiveType"] = OrUnknown(conn[1].effectiveType),
                   !["downlink"]      = IF conn[1].downlink \in {Undefined, ""}
                                        THEN Unknown
                                        ELSE conn[1].downlink \o " Mbps",
                   !["rtt"]           = IF conn[1].rtt \in {Undefined, ""}
                                        THEN Unknown
                                        ELSE conn[1].rtt \o " ms"]

\* the six assignments of the try block
WithGeo(i, data) ==
    [i EXCEPT !["ip"]       = OrUnknown(data.ip),
              !["city"]     = OrUnknown(data.city),
              !["region"]   = OrUnknown(data.region),
              !["country"]  = OrUnknown(data.country),
              !["isp"]      = OrUnknown(data.organization_name),
              !["timezone"] = OrUnknown(data.timezone)]

\* info.ip = ipData.ip || 'Unknown'
WithIp(i, ipData) == [i EXCEPT !["ip"] = OrUnknown(ipData.ip)]

(***************************************************************************)
(* Transient messages                                                      *)
(***************************************************************************)
MessageDelay == 10000

CopiedText     == "Informacion copiada al portapapeles"
CopyErrorText  == "Error al copiar al portapapeles"
DownloadedText == "Archivo descargado correctamente"

NoMessage == [text |-> "", className |-> "message"]

\* showMessage: set the text and class, arm a timer that clears them
ShowMessage(d, msg, type) ==
    [message |-> [text |-> msg, className |-> type],
     timers  |-> Append(d.timers, MessageDelay)]

(***************************************************************************)
(* getBrowserInfo                                                          *)
(***************************************************************************)
Digits == {"0", "1", "2", "3", "4", "5", "6", "7", "8", "9"}

ChromeStr  == <<"C", "h", "r", "o", "m", "e">>
SafariStr  == <<"S", "a", "f", "a", "r", "i">>
FirefoxStr == <<"F", "i", "r", "e", "f", "o", "x">>
EdgStr     == <<"E", "d", "g">>
OPRStr     == <<"O", "P", "R">>
OperaStr   == <<"O", "p", "e", "r", "a">>
VersionStr == <<"V", "e", "r", "s", "i", "o", "n">>
UnknownStr == <<"U", "n", "k", "n", "o", "w", "n">>

\* the leading run of digits of s: the capture group (\d+)
RECURSIVE DigitRun(_)
DigitRun(s) ==
    IF s # <<>> /\ Head(s) \in Digits THEN <<Head(s)>> \o DigitRun(Tail(s)) ELSE <<>>

\* /prefix(\d+)/.exec( s )?.[1] || 'Unknown', for the alternatives in prefixes
Capture(s, prefixes) ==
    LET hits == {k \in 1..Len(s) : \E p \in prefixes :
                    /\ MatchAt(s, p, k)
                    /\ k + Len(p) <= Len(s)
                    /\ s[k + Len(p)] \in Digits}
    IN  IF hits = {} THEN UnknownStr
        ELSE LET k == CHOOSE h \in hits : \A j \in hits : h <= j
                 p == CHOOSE q \in prefixes : MatchAt(s, q, k)
             IN  DigitRun(From(s, k + Len(p)))

Slash(w) == w \o <<"/">>

\* the name and version that getBrowserInfo derives from the user agent
getBrowserInfo(u) ==
    IF Includes(u, ChromeStr) /\ ~Includes(u, EdgStr) /\ ~Includes(u, OPRStr)
    THEN [name |-> "Chrome", version |-> Capture(u, {Slash(ChromeStr)})]
    ELSE IF Includes(u, SafariStr) /\ ~Includes(u, ChromeStr)
    THEN [name |-> "Safari", version |-> Capture(u, {Slash(VersionStr)})]
    ELSE IF Includes(u, FirefoxStr)
    THEN [name |-> "Firefox", version |-> Capture(u, {Slash(FirefoxStr)})]
    ELSE IF Includes(u, EdgStr)
    THEN [name |-> "Edge", version |-> Capture(u, {Slash(EdgStr)})]
    ELSE IF Includes(u, OPRStr) \/ Includes(u, OperaStr)
    THEN [name |-> "Opera",
          version |-> Capture(u, {Slash(OPRStr), OPRStr \o <<" ">>,
                                  Slash(OperaStr), OperaStr \o <<" ">>})]
    ELSE [name |-> "Unknown", version |-> UnknownStr]

\* product tokens that user agents are assembled from
Tokens ==
    { <<"M", "o", "z", "i", "l", "l", "a", "/", "5">>,
      <<"C", "h", "r", "o", "m", "e", "/", "1", "2", "0">>,
      <<"S", "a", "f", "a", "r", "i", "/", "5", "3", "7">>,
      <<"F", "i", "r", "e", "f", "o", "x", "/", "1", "1", "5">>,
      <<"E", "d", "g", "/", "1", "1", "9">>,
      <<"E", "d", "g", "i", "O", "S", "/", "4", "6">>,
      <<"O", "P", "R", "/", "9", "5">>,
      <<"O", "p", "e", "r", "a">>,
      <<"V", "e", "r", "s", "i", "o", "n", "/", "1", "7">> }

\* user agents: up to MaxTokens product tokens separated by spaces
UserAgents ==
    {Join(ts, <<" ">>) : ts \in UNION {[1..n -> Tokens] : n \in 0..MaxTokens}}

\* the user agent of the browser the page session runs in
PageUserAgent ==
    <<"C", "h", "r", "o", "m", "e", "/", "1", "2", "0", " ", "S", "a", "f", "a", "r", "i", "/", "5", "3", "7">>

(***************************************************************************)
(* parseMarkdown                                                           *)
(***************************************************************************)
H1Open      == <<"<", "h", "1", ">">>
H1Close     == <<"<", "/", "h", "1", ">">>
H2Open      == <<"<", "h", "2", ">">>
H2Close     == <<"<", "/", "h", "2", ">">>
H3Open      == <<"<", "h", "3", ">">>
H3Close     == <<"<", "/", "h", "3", ">">>
StrongOpen  == <<"<", "s", "t", "r", "o", "n", "g", ">">>
StrongClose == <<"<", "/", "s", "t", "r", "o", "n", "g", ">">>
PreOpen     == <<"<", "p", "r", "e", ">">>
PreClose    == <<"<", "/", "p", "r", "e", ">">>
CodeOpen    == <<"<", "c", "o", "d", "e", ">">>
CodeClose   == <<"<", "/", "c", "o", "d", "e", ">">>
LiOpen      == <<"<", "l", "i", ">">>
LiClose     == <<"<", "/", "l", "i", ">">>
UlOpen      == <<"<", "u", "l", ">">>
UlClose     == <<"<", "/", "u", "l", ">">>
POpen       == <<"<", "p", ">">>
PClose      == <<"<", "/", "p", ">">>
Br          == <<"<", "b", "r", ">">>
Stars       == <<"*", "*">>
\* the grave accent (backtick) character, written U+0060 below
Backtick    == "U+0060"
Fence       == <<Backtick, Backtick, Backtick>>
Tick1       == <<Backtick>>

\* s.replace( /^marker(.*$)/gim, open + '$1' + close ): with the m flag the
\* pattern is tried on every line, and . does not cross a line end
ReplaceLine(line, marker, open, close) ==
    IF StartsWith(line, marker)
    THEN open \o From(line, Len(marker) + 1) \o close
    ELSE line

RECURSIVE MapLines(_, _, _, _)
MapLines(lines, marker, open, close) ==
    IF lines = <<>> THEN <<>>
    ELSE <<ReplaceLine(Head(lines), marker, open, close)>>
         \o MapLines(Tail(lines), marker, open, close)

ReplaceLines(s, marker, open, close) ==
    Join(MapLines(Split(s, NL), marker, open, close), NL)

\* s.replace( /\*\*(.*?)\*\*/g, '<strong>$1</strong>' )
RECURSIVE Bold(_)
Bold(s) ==
    LET i == IndexFrom(s, Stars, 1)
        k == IF i = 0 THEN 0 ELSE IndexFrom(s, Stars, i + 2)
    IN  IF i = 0 THEN s
        ELSE IF k = 0 \/ \E j \in (i + 2)..(k - 1) : s[j] = "\n"
        THEN SubSeq(s, 1, i) \o Bold(From(s, i + 1))
        ELSE SubSeq(s, 1, i - 1) \o StrongOpen \o SubSeq(s, i + 2, k - 1)
             \o StrongClose \o Bold(From(s, k + 2))

\* s.replace( /U+0060 U+0060 U+0060/g, '' )
RECURSIVE RemoveFences(_)
RemoveFences(s) ==
    LET i == IndexFrom(s, Fence, 1)
    IN  IF i = 0 THEN s
        ELSE SubSeq(s, 1, i - 1) \o RemoveFences(From(s, i + 3))

WhiteSpace == {" ", "\n", "\t", "\r"}

\* String.prototype.trim
RECURSIVE TrimStart(_)
TrimStart(s) ==
    IF s # <<>> /\ Head(s) \in WhiteSpace THEN TrimStart(Tail(s)) ELSE s

RECURSIVE TrimEnd(_)
TrimEnd(s) ==
    IF s # <<>> /\ s[Len(s)] \in WhiteSpace
    THEN TrimEnd(SubSeq(s, 1, Len(s) - 1)) ELSE s

Trim(s) == TrimEnd(TrimStart(s))

\* s.replace( /FENCE[\s\S]*?FENCE/g, match => '<pre><code>' + escapeHtml( code ) + ... )
\* where FENCE is three grave accents and code is the match without fences, trimmed
RECURSIVE CodeBlocks(_)
CodeBlocks(s) ==
    LET i == IndexFrom(s, Fence, 1)
        k == IF i = 0 THEN 0 ELSE IndexFrom(s, Fence, i + 3)
    IN  IF i = 0 THEN s
        ELSE IF k = 0 THEN SubSeq(s, 1, i) \o CodeBlocks(From(s, i + 1))
        ELSE SubSeq(s, 1, i - 1) \o PreOpen \o CodeOpen
             \o escapeHtml(Trim(RemoveFences(SubSeq(s, i, k + 2))))
             \o CodeClose \o PreClose \o CodeBlocks(From(s, k + 3))

\* s.replace( /U+0060([^U+0060]+)U+0060/g, '<code>$1</code>' )
RECURSIVE InlineCode(_)
InlineCode(s) ==
    LET i == IndexFrom(s, Tick1, 1)
        k == IF i = 0 THEN 0 ELSE IndexFrom(s, Tick1, i + 1)
    IN  IF i = 0 THEN s
        ELSE IF k = 0 \/ k = i + 1
        THEN SubSeq(s, 1, i) \o InlineCode(From(s, i + 1))
        ELSE SubSeq(s, 1, i - 1) \o CodeOpen \o SubSeq(s, i + 1, k - 1)
             \o CodeClose \o InlineCode(From(s, k + 1))

\* s.replace( /(<li>.*<\/li>)/s, '<ul>$1</ul>' ): no g flag, so only the first
\* match is replaced; with the s flag the greedy .* runs from the first <li>
\* to the last </li> of the whole document
WrapList(s) ==
    LET i == IndexFrom(s, LiOpen, 1)
        j == LastIndexOf(s, LiClose)
    IN  IF i = 0 \/ j < i + Len(LiOpen) THEN s
        ELSE SubSeq(s, 1, i - 1) \o UlOpen \o SubSeq(s, i, j + Len(LiClose) - 1)
             \o UlClose \o From(s, j + Len(LiClose))

\* paragraph.replace( /\n/g, '<br>' )
RECURSIVE BreakLines(_)
BreakLines(s) ==
    IF s = <<>> THEN <<>>
    ELSE (IF Head(s) = "\n" THEN Br ELSE <<Head(s)>>) \o BreakLines(Tail(s))

\* the callback of the paragraph map
Paragraph(par) ==
    IF ~StartsWith(par, <<"<">>) THEN POpen \o BreakLines(par) \o PClose ELSE par

RECURSIVE MapParagraphs(_)
MapParagraphs(pars) ==
    IF pars = <<>> THEN <<>>
    ELSE <<Paragraph(Head(pars))>> \o MapParagraphs(Tail(pars))

\* html.split( '\n\n' ).map( ... ).join( '\n' )
Paragraphs(s) == Join(MapParagraphs(Split(s, NL \o NL)), NL)

Headers(s) ==
    ReplaceLines(
        ReplaceLines(
            ReplaceLines(s, <<"#", "#", "#", " ">>, H3Open, H3Close),
            <<"#", "#", " ">>, H2Open, H2Close),
        <<"#", " ">>, H1Open, H1Close)

ListItems(s) ==
    ReplaceLines(ReplaceLines(s, <<"*", " ">>, LiOpen, LiClose),
                 <<"-", " ">>, LiOpen, LiClose)

parseMarkdown(md) ==
    Paragraphs(WrapList(ListItems(InlineCode(CodeBlocks(Bold(Headers(md)))))))

\* lines that documents are assembled from
LineSamples ==
    { <<>>,
      <<"x">>,
      <<"*", " ", "x">>,
      <<"-", " ", "y">>,
      <<"#", " ", "x">>,
      <<"#", "#", " ", "x">>,
      <<"*", "*", "x", "*", "*">>,
      <<Backtick, "x", Backtick>>,
      Fence }

\* documents: up to MaxLines lines
Documents ==
    {Join(ls, NL) : ls \in UNION {[1..n -> LineSamples] : n \in 1..MaxLines}}

\* what README.md can contain in a page session
ReadmeTexts ==
    { <<"#", " ", "x", "\n", "\n", "x">>,
      <<"-", " ", "y", "\n", "x", "\n", "-", " ", "y">> }

(***************************************************************************)
(* Page session: state after the script is loaded, before DOMContentLoaded *)
(***************************************************************************)
\* no call of a helper on its own is in progress
PureIdle ==
    /\ browser = <<>>
    /\ markdown = <<>>
    /\ html = <<>>
    /\ text = <<>>
    /\ escaped = <<>>

PageInit ==
    /\ pc = "ready"
    /\ dataTheme = None
    /\ storedTheme \in StoredThemes
    /\ initialTheme = storedTheme
    /\ themeIcon = None
    /\ toggles = 0
    /\ netPc = "idle"
    /\ info = InfoDefaults
    /\ primaryRequests = 0
    /\ secondaryRequests = 0
    /\ primaryFailed = FALSE
    /\ systemData = <<>>
    /\ networkHtml = <<>>
    /\ displayCount = 0
    /\ writeCount = 0
    /\ textareaValue = <<>>
    /\ modalHidden = TRUE
    /\ readmeLoaded = FALSE
    /\ readmeFetches = 0
    /\ readmeReads = 0
    /\ readmeContent = <<>>
    /\ copyPending = 0
    /\ lastCopy = <<>>
    /\ downloaded = FALSE
    /\ message = NoMessage
    /\ timers = <<>>
    /\ uncaught = FALSE

Init ==
    /\ PageInit
    /\ ua = PageUserAgent
    /\ PureIdle

\* no JavaScript is running and no promise reaction is queued: the event
\* loop can deliver the next event
Quiescent == pc = "wired" /\ netPc # "returned"

(***************************************************************************)
(* init: initTheme, gatherSystemInfo (not awaited), setupEventListeners    *)
(***************************************************************************)
initTheme ==
    /\ pc = "ready"
    /\ pc' = "themed"
    /\ dataTheme' = SavedTheme(storedTheme)
    /\ themeIcon' = ThemeIcon(SavedTheme(storedTheme))
    /\ UNCHANGED <<storedTheme, initialTheme, toggles, netVars, dataVars, modalVars,
                   copyVars, msgVars, downloaded, uncaught, pureVars>>

\* the catch block of the primary request: the secondary request is issued
StartSecondary ==
    /\ primaryFailed' = TRUE
    /\ secondaryRequests' = secondaryRequests + 1
    /\ netPc' = "secondaryFetch"
    /\ UNCHANGED <<info, primaryRequests>>

\* gatherSystemInfo up to its await: the synchronous reads, then
\* getNetworkInfo up to the await of the primary fetch
gatherSystemInfo ==
    /\ pc = "themed"
    /\ pc' = "gathering"
    /\ browser' = <<getBrowserInfo(ua)>>
    /\ \E conn \in Connections : info' = WithConnection(InfoDefaults, conn)
    /\ primaryRequests' = primaryRequests + 1
    /\ netPc' = "primaryFetch"
    /\ UNCHANGED <<themeVars, secondaryRequests, primaryFailed, dataVars, modalVars,
                   copyVars, msgVars, downloaded, uncaught,
                   ua, markdown, html, text, escaped>>

setupEventListeners ==
    /\ pc = "gathering"
    /\ pc' = "wired"
    /\ UNCHANGED <<themeVars, netVars, dataVars, modalVars, copyVars, msgVars,
                   downloaded, uncaught, pureVars>>

(***************************************************************************)
(* getNetworkInfo after its first await                                    *)
(***************************************************************************)
netFrame == <<pc, themeVars, dataVars, modalVars, copyVars, msgVars,
              downloaded, uncaught, pureVars>>

\* await fetch( geojs ) settles
PrimaryFetchSettles ==
    /\ Quiescent
    /\ netPc = "primaryFetch"
    /\ \E ok \in BOOLEAN :
          IF ok
          THEN /\ netPc' = "primaryJson"
               /\ UNCHANGED <<info, primaryRequests, secondaryRequests, primaryFailed>>
          ELSE StartSecondary
    /\ UNCHANGED netFrame

\* await response.json() settles: it rejects when the body is not JSON; a
\* body that parses to null makes data.ip throw
PrimaryJsonSettles ==
    /\ Quiescent
    /\ netPc = "primaryJson"
    /\ \E parsed \in BOOLEAN, data \in PrimaryBodies :
          IF parsed /\ data # <<>>
          THEN /\ info' = WithGeo(info, data[1])
               /\ netPc' = "returned"
               /\ UNCHANGED <<primaryRequests, secondaryRequests, primaryFailed>>
          ELSE StartSecondary
    /\ UNCHANGED netFrame

\* await fetch( ipify ) settles
SecondaryFetchSettles ==
    /\ Quiescent
    /\ netPc = "secondaryFetch"
    /\ \E ok \in BOOLEAN :
          netPc' = IF ok THEN "secondaryJson" ELSE "returned"
    /\ UNCHANGED <<info, primaryRequests, secondaryRequests, primaryFailed>>
    /\ UNCHANGED netFrame

\* await ipResponse.json() settles
SecondaryJsonSettles ==
    /\ Quiescent
    /\ netPc = "secondaryJson"
    /\ \E parsed \in BOOLEAN, ipData \in SecondaryBodies :
          info' = IF parsed /\ ipData # <<>> THEN WithIp(info, ipData[1]) ELSE info
    /\ netPc' = "returned"
    /\ UNCHANGED <<primaryRequests, secondaryRequests, primaryFailed>>
    /\ UNCHANGED netFrame

\* generateTextReport: the report, or a TypeError when systemData is undefined
CanReport(data) == data # <<>>

generateTextReport(data) == <<[browser |-> data[1].browser, network |-> data[1].network]>>

LookupSettledAlways == TRUE

\* the await in gatherSystemInfo resumes only when getNetworkInfo has returned
LookupSettled == netPc = "returned"

\* gatherSystemInfo after its await: displayInfo, systemData, updateTextarea
gatherSystemInfoResumes ==
    /\ pc = "wired"
    /\ LookupSettled
    /\ netPc \notin {"idle", "done"}
    /\ netPc' = "done"
    /\ LET systemInfo == <<[browser |-> browser[1], network |-> info]>>
       IN  /\ networkHtml' = <<info>>
           /\ displayCount' = displayCount + 1
           /\ systemData' = systemInfo
           /\ writeCount' = writeCount + 1
           /\ textareaValue' = generateTextReport(systemInfo)
    /\ UNCHANGED <<pc, themeVars, info, primaryRequests, secondaryRequests,
                   primaryFailed, modalVars, copyVars, msgVars, downloaded,
                   uncaught, pureVars>>

(***************************************************************************)
(* Theme toggle                                                            *)
(***************************************************************************)
toggleTheme ==
    /\ Quiescent
    /\ toggles < MaxToggles
    /\ dataTheme' = NewTheme(dataTheme)
    /\ storedTheme' = NewTheme(dataTheme)
    /\ themeIcon' = ThemeIcon(NewTheme(dataTheme))
    /\ toggles' = toggles + 1
    /\ UNCHANGED <<pc, initialTheme, netVars, dataVars, modalVars, copyVars, msgVars,
                   downloaded, uncaught, pureVars>>

(***************************************************************************)
(* Info modal and README                                                   *)
(***************************************************************************)
modalFrame == <<pc, themeVars, netVars, dataVars, copyVars, msgVars,
                downloaded, uncaught, pureVars>>

ReadmeErrorHtml == <<"<p style=\"color: var(--error-color);\">Error al cargar</p>">>

\* showInfoModal, with loadReadme up to its await of fetch
showInfoModal ==
    /\ Quiescent
    /\ modalHidden' = FALSE
    /\ IF ~readmeLoaded
       THEN /\ readmeFetches + readmeReads < MaxReadmeFetches
            /\ readmeFetches' = readmeFetches + 1
       ELSE UNCHANGED readmeFetches
    /\ UNCHANGED <<readmeLoaded, readmeReads, readmeContent>>
    /\ UNCHANGED modalFrame

\* hideInfoModal from the close button
modalCloseClick ==
    /\ Quiescent
    /\ modalHidden' = TRUE
    /\ UNCHANGED <<readmeLoaded, readmeFetches, readmeReads, readmeContent>>
    /\ UNCHANGED modalFrame

\* click inside the modal: hides only when the backdrop itself is the target
modalClick ==
    /\ Quiescent
    /\ \E target \in {"info-modal", "readme-content"} :
          modalHidden' = IF target = "info-modal" THEN TRUE ELSE modalHidden
    /\ UNCHANGED <<readmeLoaded, readmeFetches, readmeReads, readmeContent>>
    /\ UNCHANGED modalFrame

\* keydown: Escape hides the modal when it is shown
keydown ==
    /\ Quiescent
    /\ \E key \in {"Escape", "Enter"} :
          modalHidden' = IF key = "Escape" /\ ~modalHidden THEN TRUE ELSE modalHidden
    /\ UNCHANGED <<readmeLoaded, readmeFetches, readmeReads, readmeContent>>
    /\ UNCHANGED modalFrame

\* await fetch( 'README.md' ) settles: rejected, or a response that is ok or not
ReadmeFetchSettles ==
    /\ Quiescent
    /\ readmeFetches > 0
    /\ readmeFetches' = readmeFetches - 1
    /\ \E outcome \in {"rejected", "notOk", "ok"} :
          IF outcome = "ok"
          THEN /\ readmeReads' = readmeReads + 1
               /\ UNCHANGED readmeContent
          ELSE /\ readmeContent' = ReadmeErrorHtml
               /\ UNCHANGED readmeReads
    /\ UNCHANGED <<modalHidden, readmeLoaded>>
    /\ UNCHANGED modalFrame

\* await response.text() settles
ReadmeTextSettles ==
    /\ Quiescent
    /\ readmeReads > 0
    /\ readmeReads' = readmeReads - 1
    /\ \/ \E md \in ReadmeTexts :
             /\ readmeContent' = parseMarkdown(md)
             /\ readmeLoaded' = TRUE
       \/ /\ readmeContent' = ReadmeErrorHtml
          /\ UNCHANGED readmeLoaded
    /\ UNCHANGED <<modalHidden, readmeFetches>>
    /\ UNCHANGED modalFrame

(***************************************************************************)
(* Export Controller: copy, download, messages                             *)
(***************************************************************************)
Display == [message |-> message, timers |-> timers]

LegacyOutcomes == {"true", "false", "throw"}

CopyFallbackIgnoringResult(d, legacy) ==
    IF legacy = "throw"
    THEN ShowMessage(d, CopyErrorText, "message error")
    ELSE ShowMessage(d, CopiedText, "message success")

\* the catch block of copyToClipboard: textarea.select(), execCommand( 'copy' )
CopyFallback(d, legacy) ==
    IF legacy = "true"
    THEN ShowMessage(d, CopiedText, "message success")
    ELSE ShowMessage(d, CopyErrorText, "message error")

\* what a finished copyToClipboard call did
CopyRecord(clip, legacy, d) ==
    <<[clipboard |-> clip, legacy |-> legacy,
       shown |-> Len(d.timers) - Len(timers), message |-> d.message]>>

exportFrame == <<pc, themeVars, netVars, dataVars, modalVars, pureVars>>

\* copyToClipboard up to its await; without navigator.clipboard the call
\* throws inside the try block and the fallback runs at once
copyToClipboard ==
    /\ Quiescent
    /\ \E hasClipboard \in BOOLEAN :
          IF hasClipboard
          THEN /\ copyPending < MaxPendingCopies
               /\ copyPending' = copyPending + 1
               /\ UNCHANGED <<lastCopy, message, timers>>
          ELSE /\ Len(timers) < MaxTimers
               /\ \E legacy \in LegacyOutcomes :
                     LET d == CopyFallback(Display, legacy)
                     IN  /\ message' = d.message
                         /\ timers' = d.timers
                         /\ lastCopy' = CopyRecord("absent", legacy, d)
               /\ UNCHANGED copyPending
    /\ UNCHANGED <<downloaded, uncaught>>
    /\ UNCHANGED exportFrame

\* await navigator.clipboard.writeText settles
ClipboardSettles ==
    /\ Quiescent
    /\ copyPending > 0
    /\ Len(timers) < MaxTimers
    /\ copyPending' = copyPending - 1
    /\ \E ok \in BOOLEAN :
          IF ok
          THEN LET d == ShowMessage(Display, CopiedText, "message success")
               IN  /\ message' = d.message
                   /\ timers' = d.timers
                   /\ lastCopy' = CopyRecord("resolved", "none", d)
          ELSE \E legacy \in LegacyOutcomes :
                  LET d == CopyFallback(Display, legacy)
                  IN  /\ message' = d.message
                      /\ timers' = d.timers
                      /\ lastCopy' = CopyRecord("rejected", legacy, d)
    /\ UNCHANGED <<downloaded, uncaught>>
    /\ UNCHANGED exportFrame

\* downloadData: generateTextReport throws when systemData is undefined and
\* nothing catches it
downloadData ==
    /\ Quiescent
    /\ IF CanReport(systemData)
       THEN /\ Len(timers) < MaxTimers
            /\ downloaded' = TRUE
            /\ LET d == ShowMessage(Display, DownloadedText, "message success")
               IN  /\ message' = d.message
                   /\ timers' = d.timers
            /\ UNCHANGED uncaught
       ELSE /\ uncaught' = TRUE
            /\ UNCHANGED <<downloaded, message, timers>>
    /\ UNCHANGED copyVars
    /\ UNCHANGED exportFrame

\* the callback armed by showMessage
TimerFires ==
    /\ Quiescent
    /\ timers # <<>>
    /\ Head(timers) = 0
    /\ message' = NoMessage
    /\ timers' = Tail(timers)
    /\ UNCHANGED <<copyVars, downloaded, uncaught>>
    /\ UNCHANGED exportFrame

\* TickMs milliseconds pass; a timer that is due fires before more time passes
Tick ==
    /\ timers # <<>>
    /\ Head(timers) > 0
    /\ timers' = [i \in DOMAIN timers |-> Max(0, timers[i] - TickMs)]
    /\ UNCHANGED <<message, copyVars, downloaded, uncaught>>
    /\ UNCHANGED exportFrame

\* page load: init and the asynchronous continuation of gatherSystemInfo
Load ==
    \/ initTheme
    \/ gatherSystemInfo
    \/ setupEventListeners
    \/ PrimaryFetchSettles
    \/ PrimaryJsonSettles
    \/ SecondaryFetchSettles
    \/ SecondaryJsonSettles
    \/ gatherSystemInfoResumes

Theme == toggleTheme

Modal ==
    \/ showInfoModal
    \/ modalCloseClick
    \/ modalClick
    \/ keydown
    \/ ReadmeFetchSettles
    \/ ReadmeTextSettles

Export ==
    \/ copyToClipboard
    \/ ClipboardSettles
    \/ downloadData
    \/ TimerFires
    \/ Tick

Next == Load \/ Theme \/ Modal \/ Export

\* the whole page session
Spec == Init /\ [][Next]_vars

(***************************************************************************)
(* The components of the page only share pc and systemData, so each is     *)
(* checked in a session where the user only operates that component.       *)
(***************************************************************************)
\* page load with no user events
SpecLookup == Init /\ [][Load]_vars

NextTheme == Load \/ Theme

\* page load and the theme button
SpecTheme == Init /\ [][NextTheme]_vars

InitExport == Init /\ storedTheme = None

NextExport == Load \/ Export

\* page load, the copy and download buttons, and the passing of time
SpecExport == InitExport /\ [][NextExport]_vars

NextModal == Load \/ Modal

\* page load and the info modal
SpecModal == InitExport /\ [][NextModal]_vars

(***************************************************************************)
(* The helpers applied to inputs drawn from bounded sets.                  *)
(***************************************************************************)
InitBrowser ==
    /\ PageInit
    /\ storedTheme = None
    /\ ua \in UserAgents
    /\ PureIdle

\* getBrowserInfo applied to navigator.userAgent
DetectBrowser ==
    /\ browser = <<>>
    /\ browser' = <<getBrowserInfo(ua)>>
    /\ UNCHANGED <<pageVars, ua, markdown, html, text, escaped>>

SpecBrowser == InitBrowser /\ [][DetectBrowser]_vars

InitMarkdown ==
    /\ PageInit
    /\ storedTheme = None
    /\ ua = PageUserAgent
    /\ browser = <<>>
    /\ \E doc \in Documents : markdown = <<doc>>
    /\ html = <<>>
    /\ text = <<>>
    /\ escaped = <<>>

\* parseMarkdown applied to a document
RenderMarkdown ==
    /\ markdown # <<>>
    /\ html = <<>>
    /\ html' = <<parseMarkdown(markdown[1])>>
    /\ UNCHANGED <<pageVars, ua, browser, markdown, text, escaped>>

SpecMarkdown == InitMarkdown /\ [][RenderMarkdown]_vars

\* characters that texts are assembled from
TextAlphabet == Reserved \cup {"a", ";"}

Texts == UNION {[1..n -> TextAlphabet] : n \in 0..MaxLen}

InitEscape ==
    /\ PageInit
    /\ storedTheme = None
    /\ ua = PageUserAgent
    /\ browser = <<>>
    /\ markdown = <<>>
    /\ html = <<>>
    /\ \E t \in Texts : text = <<t>>
    /\ escaped = <<>>

\* escapeHtml applied to a text, and then to its own result
EscapeText ==
    /\ text # <<>>
    /\ Len(escaped) < 2
    /\ escaped' = Append(escaped,
                         escapeHtml(IF escaped = <<>> THEN text[1] ELSE escaped[1]))
    /\ UNCHANGED <<pageVars, ua, browser, markdown, html, text>>

SpecEscape == InitEscape /\ [][EscapeText]_vars

(***************************************************************************)
(* Properties                                                              *)
(***************************************************************************)
LookupReturned == netPc \in {"returned", "done"}

SecondaryIps == {b[1].ip : b \in {x \in SecondaryBodies : x # <<>>}} \ {Undefined}

\* C1: whenever getNetworkInfo has returned after a failed primary request,
\* city, region, country, isp and timezone of the record are "Unknown" and ip
\* is the secondary service's ip or "Unknown".
C1_PrimaryFailureLeavesUnknown ==
    (primaryFailed /\ LookupReturned) =>
        /\ \A f \in GeoFields \ {"ip"} : info[f] = Unknown
        /\ info["ip"] \in SecondaryIps \cup {Unknown}

\* C2: no operation of the page session, in any interleaving with the pending
\* network lookup, lets an exception escape.
C2_NoUncaughtException == uncaught = FALSE

\* C3: the copy and download listeners are never active while systemData is
\* unset or the export text area is unpopulated.
C3_ListenersAfterRender ==
    pc = "wired" => (systemData # <<>> /\ textareaValue # <<>>)

\* C4: starting from a persisted theme of "light" or none, after n toggles the
\* document theme is "dark" for odd n and "light" for even n, after every
\* toggle the persisted value equals the document theme, and the theme is
\* always "light" or "dark".
C4_ThemeToggleFlip ==
    (pc # "ready" /\ initialTheme \in {None, "light"}) =>
        /\ dataTheme = (IF toggles % 2 = 1 THEN "dark" ELSE "light")
        /\ toggles > 0 => storedTheme = dataTheme
        /\ dataTheme \in {"light", "dark"}

C4_Witness ==
    /\ initialTheme = None
    /\ toggles = 2
    /\ dataTheme = "light"
    /\ storedTheme = "light"

\* C5: every finished copyToClipboard call has shown exactly one message; the
\* legacy command was attempted only when the clipboard write had failed; the
\* message is the success message when the write succeeded or the legacy
\* command returned true, and the error message when the legacy command
\* returned false or threw.
C5_CopyShowsOneMessage ==
    lastCopy # <<>> =>
        LET c == lastCopy[1]
        IN  /\ c.shown = 1
            /\ (c.legacy # "none") <=> (c.clipboard # "resolved")
            /\ (c.clipboard = "resolved" \/ c.legacy = "true") =>
                  c.message = [text |-> CopiedText, className |-> "message success"]
            /\ c.legacy \in {"false", "throw"} =>
                  c.message = [text |-> CopyErrorText, className |-> "message error"]

C5_Witness ==
    /\ lastCopy # <<>>
    /\ lastCopy[1].clipboard = "rejected"
    /\ lastCopy[1].legacy = "false"
    /\ message.text = CopyErrorText

\* C6: a message stays displayed until its own delay has elapsed: while the
\* timer of the latest showMessage call has time left, a message is displayed.
C6_MessageStaysForDelay ==
    (timers # <<>> /\ timers[Len(timers)] > 0) => message # NoMessage

\* the name the stated priority order Chrome, Edge, Opera, Firefox, Safari gives
PriorityName(u) ==
    IF Includes(u, ChromeStr) /\ ~Includes(u, EdgStr) /\ ~Includes(u, OPRStr)
    THEN "Chrome"
    ELSE IF Includes(u, EdgStr) THEN "Edge"
    ELSE IF Includes(u, OPRStr) \/ Includes(u, OperaStr) THEN "Opera"
    ELSE IF Includes(u, FirefoxStr) THEN "Firefox"
    ELSE IF Includes(u, SafariStr) THEN "Safari"
    ELSE "Unknown"

\* C7: getBrowserInfo names the browser by the priority order Chrome (without
\* Edg and OPR), Edge, Opera, Firefox, Safari, and gives "Unknown" for name and
\* version when none of the substrings is present.
C7_BrowserPriority ==
    browser # <<>> =>
        /\ browser[1].name = PriorityName(ua)
        /\ PriorityName(ua) = "Unknown" => browser[1].version = UnknownStr

IsListLine(line) ==
    StartsWith(line, <<"*", " ">>) \/ StartsWith(line, <<"-", " ">>)

\* the number of maximal runs of list-item lines
ListRuns(lines) ==
    Cardinality({i \in 1..Len(lines) :
                    IsListLine(lines[i]) /\ (i = 1 \/ ~IsListLine(lines[i - 1]))})

Occurrences(s, p) == {k \in 1..Len(s) : MatchAt(s, p, k)}

\* a line of plain text: no markup characters
IsTextLine(line) == line # <<>> /\ \A i \in 1..Len(line) : line[i] \in {"x", "y"}

\* a document whose lines are list items and lines of plain text
IsListDocument(md) ==
    \A line \in {Split(md, NL)[i] : i \in 1..Len(Split(md, NL))} :
        IsListLine(line) \/ IsTextLine(line)

\* C8: parseMarkdown puts one list container around each maximal run of
\* list-item lines, and nothing but the items of one run is inside a
\* container (an item is followed by a line break and the next item, or by the
\* end of the container); two runs separated by a line of text give two
\* containers.  Stated for the documents made of list items and plain text.
C8_OneContainerPerRun ==
    (html # <<>> /\ IsListDocument(markdown[1])) =>
        /\ Cardinality(Occurrences(html[1], UlOpen))
              = ListRuns(Split(markdown[1], NL))
        /\ \A k \in Occurrences(html[1], LiClose) :
              \/ MatchAt(html[1], UlClose, k + Len(LiClose))
              \/ MatchAt(html[1], NL \o LiOpen, k + Len(LiClose))
              \/ MatchAt(html[1], Br \o LiOpen, k + Len(LiClose))

\* the replacement the claim gives for a character
Entity(c) ==
    IF c = "<" THEN <<"&", "l", "t", ";">>
    ELSE IF c = ">" THEN <<"&", "g", "t", ";">>
    ELSE IF c = "&" THEN <<"&", "a", "m", "p", ";">>
    ELSE IF c = "\"" THEN <<"&", "q", "u", "o", "t", ";">>
    ELSE IF c = "'" THEN <<"&", "#", "0", "3", "9", ";">>
    ELSE <<c>>

\* C9: escapeHtml replaces each of the five reserved characters by its entity
\* and leaves every other character unchanged, and applying it twice gives the
\* same as applying it once exactly for the texts with no reserved character.
C9_EscapeHtml ==
    escaped # <<>> =>
        /\ escaped[1] = Concat([i \in 1..Len(text[1]) |-> Entity(text[1][i])])
        /\ Len(escaped) = 2 =>
              ((escaped[2] = escaped[1])
                  <=> (\A i \in 1..Len(text[1]) : text[1][i] \notin Reserved))

C9_Witness ==
    /\ Len(escaped) = 2
    /\ text = << <<"<", "a", "'">> >>
    /\ escaped[1] = <<"&", "l", "t", ";", "a", "&", "#", "0", "3", "9", ";">>
    /\ escaped[2] # escaped[1]

C10_Counts ==
    /\ primaryRequests = (IF pc \in {"ready", "themed"} THEN 0 ELSE 1)
    /\ secondaryRequests <= 1
    /\ secondaryRequests = 1 =>
          (primaryFailed /\ netPc \notin {"primaryFetch", "primaryJson"})
    /\ displayCount = (IF netPc = "done" THEN 1 ELSE 0)
    /\ writeCount = displayCount
    /\ (systemData # <<>>) <=> (writeCount = 1)

C10_Order ==
    /\ secondaryRequests' # secondaryRequests =>
          (netPc \in {"primaryFetch", "primaryJson"} /\ primaryFailed')
    /\ (displayCount' # displayCount \/ systemData' # systemData) =>
          netPc = "returned"

\* C10: per page load the primary endpoint is requested exactly once and the
\* secondary at most once, only when the primary attempt fails and never while
\* it is pending; displayInfo runs and systemData is written exactly once, and
\* only after getNetworkInfo has returned.
C10_SingleAttemptPerStage == []C10_Counts /\ [][C10_Order]_vars

C10_Witness ==
    /\ netPc = "done"
    /\ secondaryRequests = 1
    /\ primaryRequests = 1
    /\ displayCount = 1
    /\ systemData # <<>>

\* a step in which a loadReadme call ends in its catch block
ReadmeLoadFails ==
    /\ readmeFetches' + readmeReads' < readmeFetches + readmeReads
    /\ readmeContent' = ReadmeErrorHtml

\* a fetch of README.md is started only by an open that finds readmeLoaded false
C11_FetchOnlyWhenNotLoaded ==
    readmeFetches' > readmeFetches => (~readmeLoaded /\ ~modalHidden')

\* readmeLoaded becomes true only when response.text() of an ok response has
\* settled and its content is rendered, and never returns to false
C11_LoadedOnlyAfterRender ==
    /\ (~readmeLoaded /\ readmeLoaded') =>
          /\ readmeReads' < readmeReads
          /\ \E md \in ReadmeTexts : readmeContent' = parseMarkdown(md)
    /\ readmeLoaded => readmeLoaded'

\* a failed load leaves readmeLoaded false, so that the next open fetches again
C11_FailedLoadLeavesUnloaded == ReadmeLoadFails => ~readmeLoaded'

C11_Step ==
    /\ C11_FetchOnlyWhenNotLoaded
    /\ C11_LoadedOnlyAfterRender
    /\ C11_FailedLoadLeavesUnloaded

\* C11: in every interleaving of modal opens and closes with README fetch
\* completions, a fetch is started only by an open that finds readmeLoaded
\* false; readmeLoaded becomes true only after an ok response was rendered and
\* never returns to false; a failed load leaves readmeLoaded false, so the next
\* open fetches again.
C11_ReadmeLoadedProtocol == [][C11_Step]_vars

\* the first two parts of C11 on their own
C11_PartsThatHold ==
    [][C11_FetchOnlyWhenNotLoaded /\ C11_LoadedOnlyAfterRender]_vars

====
